---------------------------- MODULE Spec2Model ----------------------------
(***************************************************************************)
(* A model of do.go, the DigitalOcean dynamic inventory for Ansible.       *)
(*                                                                         *)
(* main checks the environment, creates the two maps of the global         *)
(* inventory ai, fetches /droplets, decodes the answer, folds every        *)
(* droplet into ai (createInventory) and prints ai as one JSON object      *)
(* (printInventory).  Go maps are functions whose DOMAIN is the key set,   *)
(* slices are sequences, strings are TLA+ strings (\o is concatenation).   *)
(***************************************************************************)
EXTENDS Naturals, Sequences, FiniteSets

VARIABLES
    pc,         \* the statement main (or createInventory) is about to run
    environ,    \* the process environment: variable name -> value
    c,          \* the doClient made by createDoClient
    b,          \* the bytes doGet returned, as the document they spell
    dResponse,  \* the dropletsResponse that json.Unmarshal filled
    ai,         \* the global ansibleInventory
    stdout,     \* what has been printed, one entry per Printf/Println
    exitCode,   \* the status passed to os.Exit, or NoExit
    calls       \* history: the steps fetch, build and print, in the order run

vars == <<pc, environ, c, b, dResponse, ai, stdout, exitCode, calls>>

-----------------------------------------------------------------------------
(* Bounds of the model *)

MaxDroplets == 2    \* droplets in one response
MaxTags == 2        \* tags on one droplet
MaxIfaces == 2      \* v4 interfaces on one droplet
MaxPasses == 3      \* createInventory calls in one process (SpecPasses)

SeqsUpTo(S, n) == UNION {[1..k -> S] : k \in 0..n}

-----------------------------------------------------------------------------
(* Constants and values of the program *)

ansibleGroupPrefixEmpty == ""

ansibleGroupPrefix == "do_"

doApi == "https://api.digitalocean.com/v2"

environVars == [DO_TOKEN |-> "The Digital Ocean token API access key"]

Nil == "nil"        \* a nil map, a nil client
NoExit == "running" \* os.Exit has not been called

EmptyMap == [x \in {} |-> x]    \* make(map[...]...)

\* m[k] = v on a Go map
MapSet(m, k, v) == [x \in (DOMAIN m) \cup {k} |-> IF x = k THEN v ELSE m[x]]

\* A droplet, with the fields createInventory reads
Droplet(name, slug, tags, v4) ==
    [Name |-> name, Region |-> [Slug |-> slug], Tags |-> tags,
     Networks |-> [V4 |-> v4]]

V4(type, ip) == [Type |-> type, IpAddress |-> ip]

\* var ai = ansibleInventory{}: both maps nil
ZeroInventory == [Groups |-> Nil, Meta |-> [Hostvars |-> Nil]]

\* the inventory after main's two make calls
EmptyInventory == [Groups |-> EmptyMap, Meta |-> [Hostvars |-> EmptyMap]]

-----------------------------------------------------------------------------
(* createInventory: the body of the loop over the droplets *)

\* Group based on region
RegionGroupOverwrite(groups, d) ==
    MapSet(groups, ansibleGroupPrefix \o d.Region.Slug, [Hosts |-> <<d.Name>>])

RegionGroup(groups, d) ==
    LET g == ansibleGroupPrefix \o d.Region.Slug IN
    IF g \notin DOMAIN groups
    THEN MapSet(groups, g, [Hosts |-> <<d.Name>>])
    ELSE MapSet(groups, g, [Hosts |-> Append(groups[g].Hosts, d.Name)])

\* Groups based on tags: one tag
TagGroup(groups, d, t) ==
    LET g == ansibleGroupPrefix \o t IN
    IF g \notin DOMAIN groups
    THEN MapSet(groups, g, [Hosts |-> <<d.Name>>])
    ELSE MapSet(groups, g, [Hosts |-> Append(groups[g].Hosts, d.Name)])

\* for _, t := range d.Tags
RECURSIVE TagGroups(_, _, _)
TagGroups(groups, d, tags) ==
    IF tags = <<>> THEN groups
    ELSE TagGroups(TagGroup(groups, d, Head(tags)), d, Tail(tags))

\* Setup hostvars for each droplet
SetupHostvarsIfNetworked(hostvars, d) ==
    IF d.Name \notin DOMAIN hostvars /\ d.Networks.V4 # <<>>
    THEN MapSet(hostvars, d.Name, EmptyMap)
    ELSE hostvars

SetupHostvars(hostvars, d) ==
    IF d.Name \notin DOMAIN hostvars
    THEN MapSet(hostvars, d.Name, EmptyMap)
    ELSE hostvars

\* We want only the Public IPv4
IsAnyType(n) == TRUE

IsPublic(n) == n.Type = "public"

\* hostvars[name]["ansible_host"] = ip.  SetupHostvars has run, so the entry
\* exists; the type assertion on a missing entry would panic.
SetAnsibleHost(hostvars, name, ip) ==
    IF name \in DOMAIN hostvars
    THEN MapSet(hostvars, name, MapSet(hostvars[name], "ansible_host", ip))
    ELSE hostvars

RECURSIVE ScanV4(_, _, _)

\* the scan goes on after a match (no break)
ScanOn(hostvars, d, rest) == ScanV4(hostvars, d, rest)

\* break: the interfaces after the first public one are not looked at
ScanBreak(hostvars, d, rest) == hostvars

\* for _, n := range d.Networks.V4
ScanV4(hostvars, d, v4) ==
    IF v4 = <<>> THEN hostvars
    ELSE IF IsPublic(Head(v4))
         THEN ScanBreak(SetAnsibleHost(hostvars, d.Name, Head(v4).IpAddress),
                        d, Tail(v4))
         ELSE ScanV4(hostvars, d, Tail(v4))

\* one iteration of "for _, d := range dResponse.Droplets"
LoopBody(inv, d) ==
    [Groups |-> TagGroups(RegionGroup(inv.Groups, d), d, d.Tags),
     Meta |-> [Hostvars |->
                 ScanV4(SetupHostvars(inv.Meta.Hostvars, d), d, d.Networks.V4)]]

\* the whole loop, over the droplets in their order
RECURSIVE DropletLoop(_, _)
DropletLoop(inv, droplets) ==
    IF droplets = <<>> THEN inv
    ELSE DropletLoop(LoopBody(inv, Head(droplets)), Tail(droplets))

-----------------------------------------------------------------------------
(* printInventory: the map that is marshalled *)

PrintMap(inv) ==
    LET keys == (DOMAIN inv.Groups) \cup {"_meta"} IN
    [k \in keys |-> IF k = "_meta" THEN inv.Meta ELSE inv.Groups[k]]

-----------------------------------------------------------------------------
(* The inputs: environments and server answers *)

Tokens == {"", "dop_v1_token"}

\* DO_TOKEN unset, set to the empty string, or set to a token
Environments == {EmptyMap} \cup {[DO_TOKEN |-> t] : t \in Tokens}

\* os.LookupEnv(k): whether k is set (an empty value counts as set)
LookupEnv(env, k) == k \in DOMAIN env

\* os.Getenv(k): the value, "" when unset
Getenv(env, k) == IF k \in DOMAIN env THEN env[k] ELSE ""

\* the droplets vps2 and vps3 of the README's example
ExampleDroplets ==
    {Droplet("vps2", "nyc3", <<"web">>, <<V4("public", "206.81.0.1")>>),
     Droplet("vps3", "nyc3", <<"web", "db">>,
             <<V4("private", "10.0.0.3"), V4("public", "104.248.0.1")>>)}

ExampleInputs == SeqsUpTo(ExampleDroplets, MaxDroplets)

\* droplets that differ in name, region and tags; a tag may spell a region
\* slug, and slugs and tags include "" and "_meta"
Names == {"vps2", "vps3"}
Slugs == {"nyc3", "_meta"}
TagStrings == {"nyc3", ""}

GroupDroplets ==
    {Droplet(n, s, ts, <<V4("public", "206.81.0.1")>>) :
        n \in Names, s \in Slugs, ts \in SeqsUpTo(TagStrings, MaxTags)}

GroupInputs == SeqsUpTo(GroupDroplets, MaxDroplets)

\* droplets that differ in name and interfaces
Interfaces ==
    {V4("public", "1.2.3.4"), V4("public", "5.6.7.8"), V4("private", "10.0.0.1")}

VarDroplets ==
    {Droplet(n, "nyc3", <<"web">>, v4) :
        n \in Names, v4 \in SeqsUpTo(Interfaces, MaxIfaces)}

VarInputs == SeqsUpTo(VarDroplets, MaxDroplets)

\* The body of the answer, as the document its bytes spell: a droplets
\* document, one whose droplet number bad has a string for "tags", or bytes
\* that are no JSON document (cut short, or not JSON at all).
JsonBody(ds) == [kind |-> "json", Droplets |-> ds, bad |-> 0]
MistypedBody(ds, k) == [kind |-> "mistyped", Droplets |-> ds, bad |-> k]
InvalidBody == [kind |-> "invalid", Droplets |-> <<>>, bad |-> 0]
NoBody == [kind |-> "none", Droplets |-> <<>>, bad |-> 0]

\* json.Unmarshal(b, &dResponse) on a zero dropletsResponse.  Invalid bytes
\* leave it untouched; a field of the wrong JSON type is skipped, left at
\* its zero value and reported, and the rest is decoded.
UnmarshalErr(body) == body.kind # "json"

UnmarshalValue(body) ==
    CASE body.kind = "json" -> [Droplets |-> body.Droplets]
      [] body.kind = "mistyped" ->
            [Droplets |-> [i \in DOMAIN body.Droplets |->
                IF i = body.bad
                THEN [body.Droplets[i] EXCEPT !.Tags = <<>>]
                ELSE body.Droplets[i]]]
      [] OTHER -> [Droplets |-> <<>>]

Line(text) == [text |-> text]
Printed(text) == \E i \in DOMAIN stdout : stdout[i].text = text
Called(step) == \E i \in DOMAIN calls : calls[i] = step
Passes == Cardinality({i \in DOMAIN calls : calls[i] = "build"})

-----------------------------------------------------------------------------
(* main, statement by statement *)

Init ==
    /\ pc = "assertEnvironSet"
    /\ environ \in Environments
    /\ c = Nil
    /\ b = NoBody
    /\ dResponse = [Droplets |-> <<>>]
    /\ ai = ZeroInventory
    /\ stdout = <<>>
    /\ exitCode = NoExit
    /\ calls = <<>>

\* assertEnvironSet never finds a variable missing
hasVarsAlways(env) == TRUE

\* hasVars after the loop over environVars
hasVars(env) == \A k \in DOMAIN environVars : LookupEnv(env, k)

assertEnvironSet ==
    /\ pc = "assertEnvironSet"
    /\ IF hasVars(environ)
       THEN /\ pc' = "initMaps"
            /\ UNCHANGED <<stdout, exitCode>>
       ELSE /\ stdout' = Append(stdout,
                   Line("error: DO_TOKEN environment variable is missing"))
            /\ exitCode' = 1
            /\ pc' = "exited"
    /\ UNCHANGED <<environ, c, b, dResponse, ai, calls>>

\* ai.Groups = make(...); ai.Meta.Hostvars = make(...)
initMaps ==
    /\ pc = "initMaps"
    /\ ai' = EmptyInventory
    /\ pc' = "createDoClient"
    /\ UNCHANGED <<environ, c, b, dResponse, stdout, exitCode, calls>>

createDoClient ==
    /\ pc = "createDoClient"
    /\ c' = [api |-> doApi, token |-> Getenv(environ, "DO_TOKEN")]
    /\ pc' = "doGet"
    /\ UNCHANGED <<environ, b, dResponse, ai, stdout, exitCode, calls>>

\* doGet("/droplets"), the first statement of createInventory.  The request
\* is built from constants, so http.NewRequest does not fail.
doGet(inputs) ==
    /\ pc = "doGet"
    /\ calls' = Append(calls, "doGet")
    /\ \/ \* hc.Do fails
          /\ stdout' = Append(stdout, Line("error: failed to get"))
          /\ exitCode' = 1
          /\ pc' = "exited"
          /\ UNCHANGED b
       \/ \* ioutil.ReadAll fails: reported, and the bytes read are returned
          /\ stdout' = Append(stdout, Line("error: failed to read body"))
          /\ b' = InvalidBody
          /\ pc' = "unmarshal"
          /\ UNCHANGED exitCode
       \/ \* the body is read whole
          /\ \/ \E ds \in inputs : b' = JsonBody(ds)
             \/ \E ds \in inputs : \E k \in DOMAIN ds : b' = MistypedBody(ds, k)
             \/ b' = InvalidBody
          /\ pc' = "unmarshal"
          /\ UNCHANGED <<stdout, exitCode>>
    /\ UNCHANGED <<environ, c, dResponse, ai>>

\* json.Unmarshal and the report of its error; execution goes on
unmarshal ==
    /\ pc = "unmarshal"
    /\ dResponse' = UnmarshalValue(b)
    /\ stdout' = IF UnmarshalErr(b)
                 THEN Append(stdout, Line("error: unmarshal failed"))
                 ELSE stdout
    /\ pc' = "loop"
    /\ UNCHANGED <<environ, c, b, ai, exitCode, calls>>

\* Iterate every droplet
loop ==
    /\ pc = "loop"
    /\ ai' = DropletLoop(ai, dResponse.Droplets)
    /\ calls' = Append(calls, "build")
    /\ pc' = "printInventory"
    /\ UNCHANGED <<environ, c, b, dResponse, stdout, exitCode>>

\* every value is a string or a map or slice of strings: json.Marshal
\* does not fail
printInventory ==
    /\ pc = "printInventory"
    /\ stdout' = Append(stdout, [text |-> "inventory", json |-> PrintMap(ai)])
    /\ calls' = Append(calls, "printInventory")
    /\ pc' = "done"
    /\ UNCHANGED <<environ, c, b, dResponse, ai, exitCode>>

Next ==
    \/ assertEnvironSet
    \/ initMaps
    \/ createDoClient
    \/ doGet(ExampleInputs)
    \/ unmarshal
    \/ loop
    \/ printInventory

Spec == Init /\ [][Next]_vars

-----------------------------------------------------------------------------
(* createInventory's loop and printInventory on a decoded answer *)

\* main has reached the loop with the droplets ds decoded without error
AtLoop(ds) ==
    /\ pc = "loop"
    /\ environ \in {[DO_TOKEN |-> "dop_v1_token"]}
    /\ c = [api |-> doApi, token |-> "dop_v1_token"]
    /\ b = JsonBody(ds)
    /\ dResponse = [Droplets |-> ds]
    /\ ai = EmptyInventory
    /\ stdout = <<>>
    /\ exitCode = NoExit
    /\ calls = <<"doGet">>

InitGroups == \E ds \in GroupInputs : AtLoop(ds)

InitVars == \E ds \in VarInputs : AtLoop(ds)

NextBuild == loop \/ printInventory

SpecGroups == InitGroups /\ [][NextBuild]_vars

SpecVars == InitVars /\ [][NextBuild]_vars

-----------------------------------------------------------------------------
(* createInventory called again by the same process *)

InitPasses ==
    /\ pc = "doGet"
    /\ environ \in {[DO_TOKEN |-> "dop_v1_token"]}
    /\ c = [api |-> doApi, token |-> "dop_v1_token"]
    /\ b = NoBody
    /\ dResponse = [Droplets |-> <<>>]
    /\ ai = EmptyInventory
    /\ stdout = <<>>
    /\ exitCode = NoExit
    /\ calls = <<>>

\* createInventory has returned and is called once more: dResponse is a
\* fresh local of the call, ai is the global
createInventoryAgain ==
    /\ pc = "printInventory"
    /\ Passes < MaxPasses
    /\ dResponse' = [Droplets |-> <<>>]
    /\ pc' = "doGet"
    /\ UNCHANGED <<environ, c, b, ai, stdout, exitCode, calls>>

NextPasses ==
    \/ doGet(ExampleInputs)
    \/ unmarshal
    \/ loop
    \/ createInventoryAgain
    \/ printInventory

SpecPasses == InitPasses /\ [][NextPasses]_vars

-----------------------------------------------------------------------------
(* What the properties speak of *)

Droplets == dResponse.Droplets

\* the loop over the droplets has run
Built == pc \in {"printInventory", "done"}

Range(s) == {s[i] : i \in DOMAIN s}

Count(x, s) == Cardinality({i \in DOMAIN s : s[i] = x})

\* the host list of group g, empty when there is no such group
HostsOf(g) == IF g \in DOMAIN ai.Groups THEN ai.Groups[g].Hosts ELSE <<>>

HasPublic(d) == \E i \in DOMAIN d.Networks.V4 : d.Networks.V4[i].Type = "public"

\* the address of the public interface with the least index
FirstPublicAddress(d) ==
    LET v4 == d.Networks.V4
        i == CHOOSE k \in DOMAIN v4 :
                /\ v4[k].Type = "public"
                /\ \A l \in 1..(k - 1) : v4[l].Type # "public"
    IN v4[i].IpAddress

HostvarsOf(name) == ai.Meta.Hostvars[name]

Permutations(n) ==
    {f \in [1..n -> 1..n] : \A i, j \in 1..n : f[i] = f[j] => i = j}

\* group name -> set of hostnames
MembershipSets(groups) == [g \in DOMAIN groups |-> Range(groups[g].Hosts)]

IsPrefixOf(s, t) == Len(s) <= Len(t) /\ SubSeq(t, 1, Len(s)) = s

-----------------------------------------------------------------------------
(* Properties *)

\* C1: after the loop, the keys of hostvars are exactly the display names of
\* the droplets handed to it, also when two droplets share a name (a key of
\* a map is there once).
C1_HostvarsKeys ==
    Built => DOMAIN ai.Meta.Hostvars = {Droplets[i].Name : i \in DOMAIN Droplets}

C1_Witness ==
    /\ Built
    /\ Len(Droplets) = 2
    /\ Droplets[1].Name = Droplets[2].Name
    /\ Droplets[1].Networks.V4 = <<>>
    /\ Droplets[2].Networks.V4 # <<>>
    /\ DOMAIN ai.Meta.Hostvars = {Droplets[1].Name}

\* C2: after the loop, for every display name n and every region slug s of
\* the input, n is in the host list of group "do_" + s once per droplet
\* named n in region s, and so in no region group but its droplets' own.
C2_OneRegionGroup ==
    Built =>
        \A i, j \in DOMAIN Droplets :
            LET n == Droplets[i].Name
                s == Droplets[j].Region.Slug
            IN Count(n, HostsOf("do_" \o s)) =
                   Cardinality({k \in DOMAIN Droplets :
                       Droplets[k].Name = n /\ Droplets[k].Region.Slug = s})

\* all (droplet, tag position) pairs of the input
TagSlots ==
    UNION {{<<j, k>> : k \in DOMAIN Droplets[j].Tags} : j \in DOMAIN Droplets}

\* C3: after the loop, for every droplet and every tag t on it, its display
\* name is in the host list of group "do_" + t once per occurrence of t in
\* the tag lists of the droplets of that name; a droplet without tags is in
\* its region group.
C3_OncePerTagOccurrence ==
    Built =>
        \A i \in DOMAIN Droplets :
            LET d == Droplets[i] IN
            /\ \A t \in Range(d.Tags) :
                  Count(d.Name, HostsOf("do_" \o t)) =
                      Cardinality({p \in TagSlots :
                          /\ Droplets[p[1]].Name = d.Name
                          /\ Droplets[p[1]].Tags[p[2]] = t})
            /\ d.Tags = <<>> =>
                  d.Name \in Range(HostsOf("do_" \o d.Region.Slug))

\* C4, as claimed: after the loop, every droplet with a public interface has
\* ansible_host equal to the address of its first public interface.
C4_FirstPublicOfEveryDroplet ==
    Built =>
        \A i \in DOMAIN Droplets :
            HasPublic(Droplets[i]) =>
                /\ "ansible_host" \in DOMAIN HostvarsOf(Droplets[i].Name)
                /\ HostvarsOf(Droplets[i].Name)["ansible_host"] =
                       FirstPublicAddress(Droplets[i])

\* no droplet after number i has the same name and a public interface
LastPublicOfName(i) ==
    \A j \in DOMAIN Droplets :
        (j > i /\ Droplets[j].Name = Droplets[i].Name) => ~HasPublic(Droplets[j])

\* C4, amended: after the loop, ansible_host of a display name is the address
\* of the first public interface of the last droplet of that name that has a
\* public interface; with unique names, of the droplet itself.
C4_FirstPublicOfLastDroplet ==
    Built =>
        \A i \in DOMAIN Droplets :
            (HasPublic(Droplets[i]) /\ LastPublicOfName(i)) =>
                /\ "ansible_host" \in DOMAIN HostvarsOf(Droplets[i].Name)
                /\ HostvarsOf(Droplets[i].Name)["ansible_host"] =
                       FirstPublicAddress(Droplets[i])

C4_Witness ==
    /\ Built
    /\ Len(Droplets) = 2
    /\ Droplets[1].Name = "vps2"
    /\ Droplets[1].Networks.V4 = <<V4("private", "10.0.0.1"), V4("public", "5.6.7.8")>>
    /\ Droplets[2].Name = "vps3"
    /\ Droplets[2].Networks.V4 = <<V4("public", "1.2.3.4"), V4("public", "5.6.7.8")>>
    /\ HostvarsOf("vps2")["ansible_host"] = "5.6.7.8"
    /\ HostvarsOf("vps3")["ansible_host"] = "1.2.3.4"

\* C5, as claimed: after the loop, every droplet without a public interface
\* has a hostvars entry, and the entry has no ansible_host.
C5_NoPublicNoAnsibleHost ==
    Built =>
        \A i \in DOMAIN Droplets :
            ~HasPublic(Droplets[i]) =>
                /\ Droplets[i].Name \in DOMAIN ai.Meta.Hostvars
                /\ "ansible_host" \notin DOMAIN HostvarsOf(Droplets[i].Name)

\* C5, amended: after the loop, a display name none of whose droplets has a
\* public interface has a hostvars entry, and the entry has no ansible_host.
C5_NoPublicOfNameNoAnsibleHost ==
    Built =>
        \A i \in DOMAIN Droplets :
            (\A j \in DOMAIN Droplets :
                Droplets[j].Name = Droplets[i].Name => ~HasPublic(Droplets[j])) =>
                /\ Droplets[i].Name \in DOMAIN ai.Meta.Hostvars
                /\ "ansible_host" \notin DOMAIN HostvarsOf(Droplets[i].Name)

C5_Witness ==
    /\ Built
    /\ Len(Droplets) = 2
    /\ Droplets[1].Name = "vps2"
    /\ Droplets[1].Networks.V4 = <<V4("private", "10.0.0.1")>>
    /\ Droplets[2].Name = "vps3"
    /\ Droplets[2].Networks.V4 = <<>>
    /\ HostvarsOf("vps2") = EmptyMap
    /\ HostvarsOf("vps3") = EmptyMap

\* C6: the groups and the set of hostnames of each group that the loop made
\* from the droplets are those it makes, from an empty inventory, from the
\* droplets in any other order.
C6_OrderIndependent ==
    Built =>
        \A f \in Permutations(Len(Droplets)) :
            MembershipSets(
                DropletLoop(EmptyInventory,
                            [i \in 1..Len(Droplets) |-> Droplets[f[i]]]).Groups)
            = MembershipSets(ai.Groups)

C6_Witness ==
    /\ Built
    /\ Len(Droplets) = 2
    /\ Droplets[1].Name # Droplets[2].Name
    /\ Droplets[1].Region.Slug = Droplets[2].Region.Slug
    /\ Droplets[1].Tags = <<"nyc3", "">>
    /\ Droplets[2].Tags = <<"", "">>
    /\ ai.Groups["do_"].Hosts = <<Droplets[1].Name, Droplets[2].Name, Droplets[2].Name>>

\* C7: once a failure to read the body or to decode it has been reported,
\* the loop over the droplets does not run and no inventory is printed.
C7_DecodeFailureIsFatal ==
    (Printed("error: failed to read body") \/ Printed("error: unmarshal failed"))
        => (~Called("build") /\ ~Printed("inventory") /\ pc # "done")

Document == stdout[Len(stdout)].json

\* the region slugs and tags of the droplets
SlugsAndTags ==
    {Droplets[i].Region.Slug : i \in DOMAIN Droplets}
        \cup UNION {Range(Droplets[i].Tags) : i \in DOMAIN Droplets}

\* C9: the keys of the printed document are the group names and "_meta";
\* the group names are "do_" + s for the region slugs and tags s, so each
\* starts with "do_" and none is "_meta"; each group is printed under its
\* name, and "_meta" holds the hostvars.
C9_TopLevelKeys ==
    pc = "done" =>
        /\ DOMAIN Document = (DOMAIN ai.Groups) \cup {"_meta"}
        /\ DOMAIN ai.Groups = {"do_" \o s : s \in SlugsAndTags}
        /\ \A g \in DOMAIN ai.Groups :
              /\ IsPrefixOf("do_", g)
              /\ g # "_meta"
              /\ DOMAIN Document[g] = {"Hosts"}
              /\ Document[g] = ai.Groups[g]
        /\ DOMAIN Document["_meta"] = {"Hostvars"}
        /\ Document["_meta"].Hostvars = ai.Meta.Hostvars

C9_Witness ==
    /\ pc = "done"
    /\ Len(Droplets) = 2
    /\ Droplets[1].Region.Slug = "_meta"
    /\ Droplets[2].Region.Slug = "nyc3"
    /\ Droplets[2].Tags = <<"", "nyc3">>
    /\ DOMAIN Document = {"do__meta", "do_nyc3", "do_", "_meta"}

\* C10: after every call of createInventory that fetched and decoded without
\* error, ai is what the loop makes of the droplets of that call from an
\* empty inventory: its hostvars have the names of those droplets and no
\* other.
C10_FreshInventoryEachPass ==
    (Built /\ stdout = <<>>) =>
        /\ ai = DropletLoop(EmptyInventory, Droplets)
        /\ DOMAIN ai.Meta.Hostvars = {Droplets[i].Name : i \in DOMAIN Droplets}

=============================================================================
